---- MODULE Spec2Model ----
(***************************************************************************)
(* Model of src/inventorygenerator.py: the dynamic Ansible inventory       *)
(* script.  fetch_hosts_from_db turns the rows of one SQL result set into  *)
(* host records; generate_inventory classifies every host record by        *)
(* substring tests on its hostname and its TEAMNAME- tag and assembles the *)
(* inventory document.                                                     *)
(*                                                                         *)
(* Python values whose type the code inspects (the tag payload, the        *)
(* app_region) are tagged records [t |-> <type name>, v |-> <value>];      *)
(* hostnames, labels and group names are TLA+ strings, on which Len and    *)
(* SubSeq act character by character.                                      *)
(***************************************************************************)
EXTENDS Integers, Sequences, FiniteSets, TLC

VARIABLES
    pc,              \* position of the process
    sql_data,        \* fetch_hosts_from_db: rows returned by cursor.fetchall()
    r,               \* fetch_hosts_from_db: index of the next row of the loop
    json_like_data,  \* fetch_hosts_from_db: host records built so far
    hosts,           \* argument of generate_inventory
    i,               \* generate_inventory: index of the next host of the loop
    inventory,       \* generate_inventory: the document under construction
    groups,          \* generate_inventory local, as iterated by line 193
    job_name,        \* generate_inventory local
    env_name,        \* generate_inventory local
    error,           \* name of the exception that ended the call, "" if none
    calls,           \* number of invocations of generate_inventory so far
    outcomes,        \* outcome of every finished invocation, in order
    stdout           \* what __main__ printed

vars == <<pc, sql_data, r, json_like_data, hosts, i, inventory, groups,
          job_name, env_name, error, calls, outcomes, stdout>>

fetchVars == <<sql_data, r, json_like_data, stdout>>

-----------------------------------------------------------------------------
(* Bounds *)

MaxHosts == 2

MaxRows == 2

MaxCalls == 2

-----------------------------------------------------------------------------
(* Python values *)

PyNone == [t |-> "NoneType", v |-> <<>>]

PyStr(s) == [t |-> "str", v |-> s]

PyInt(n) == [t |-> "int", v |-> n]

PyList(items) == [t |-> "list", v |-> items]

PyDict(f) == [t |-> "dict", v |-> f]

\* A local variable that no assignment has reached yet.
Unbound == "<unbound>"

\* `sub in s` on two str values.
Contains(sub, s) ==
    \E k \in 1..(Len(s) - Len(sub) + 1) : SubSeq(s, k, k + Len(sub) - 1) = sub

\* s.startswith(prefix)
StartsWith(s, prefix) ==
    /\ Len(s) >= Len(prefix)
    /\ SubSeq(s, 1, Len(prefix)) = prefix

\* Iterating a str yields its characters, one str of length 1 each.
Chars(s) == [k \in 1..Len(s) |-> SubSeq(s, k, k)]

\* Number of occurrences of x in the list s.
Count(x, s) == Cardinality({k \in 1..Len(s) : s[k] = x})

-----------------------------------------------------------------------------
(* Inputs *)

\* Hostnames (ObjectName): environment and role tokens occur as substrings.
Hostnames ==
    { "DEV-TEST1-HTTP-APP", "DEV01", "TEST1-TOMCAT", "TEST2-HTTP-APP",
      "LOADTEST-WEB", "PROD-WEB" }

\* app_region is None or the first tag value that starts with "TEAMNAME-".
Regions ==
    { PyNone, PyStr("TEAMNAME-DEV"), PyStr("TEAMNAME-TEST1"),
      PyStr("TEAMNAME-TEST2"), PyStr("TEAMNAME-PROD") }

\* The dict appended at lines 113-120.
HostRecord(name, id, objectName, region) ==
    [Name |-> name, ObjectId |-> id, ObjectName |-> objectName,
     app_region |-> region]

HostRecords ==
    { HostRecord("vcenter", 1, h, a) : h \in Hostnames, a \in Regions }

SeqsUpTo(S, n) == UNION { [1..k -> S] : k \in 0..n }

-----------------------------------------------------------------------------
(* generate_inventory *)

TestEnvs == <<"DEV", "TEST1", "TEST2">>

\* `test_env in app_region` raises TypeError unless app_region is a str; it
\* is the first operand evaluated for the first test_env.
PredicateRaises(app_region) == app_region.t # "str"

\* The any(...) of lines 151-154, for an app_region that is a str.
IsTestEnv(app_region, hostname) ==
    \E k \in 1..Len(TestEnvs) :
        Contains(TestEnvs[k], app_region.v) \/ Contains("TEST", hostname)

RoleGroupsDEV(hostname) ==
    IF Contains("HTTP", hostname) \/ Contains("WEB", hostname)
    THEN <<"WEB", "WEB_PATCHING">>
    ELSE IF Contains("APP", hostname) \/ Contains("TOMCAT", hostname)
         THEN <<"APP", "TOMCAT_PATCHING">>
         ELSE <<>>

RoleGroupsTEST1(hostname) ==
    IF Contains("HTTP", hostname) \/ Contains("WEB", hostname)
    THEN <<"WEB", "WEB_PATCHING">>
    ELSE IF Contains("APP", hostname) \/ Contains("TOMCAT", hostname)
         THEN <<"APP", "TOMCAT_PATCHING">>
         ELSE <<>>

\* The two tests of lines 181-184 in the opposite order.
RoleGroupsTEST2AppFirst(hostname) ==
    IF Contains("APP", hostname) \/ Contains("TOMCAT", hostname)
    THEN <<"APP", "TOMCAT_PATCHING">>
    ELSE IF Contains("HTTP", hostname) \/ Contains("WEB", hostname)
         THEN <<"WEB", "WEB_PATCHING">>
         ELSE <<>>

RoleGroupsTEST2(hostname) ==
    IF Contains("HTTP", hostname) \/ Contains("WEB", hostname)
    THEN <<"WEB", "WEB_PATCHING">>
    ELSE IF Contains("APP", hostname) \/ Contains("TOMCAT", hostname)
         THEN <<"APP", "TOMCAT_PATCHING">>
         ELSE <<>>

\* groups after the managed branch, lines 155-184.
ManagedGroups(hostname) ==
    IF Contains("DEV", hostname)
    THEN <<"DEV">> \o RoleGroupsDEV(hostname)
    ELSE IF Contains("TEST1", hostname)
         THEN <<"TEST1">> \o RoleGroupsTEST1(hostname)
         ELSE IF Contains("TEST2", hostname)
              THEN <<"TEST2">> \o RoleGroupsTEST2(hostname)
              ELSE <<>>

\* env_name after the managed branch: assigned at lines 163, 171, 179 only.
ManagedEnvName(hostname, old) ==
    IF Contains("DEV", hostname)
    THEN "DEV_ENVIRONMENT"
    ELSE IF Contains("TEST1", hostname)
         THEN "TEST1_ENVIRONMENT"
         ELSE IF Contains("TEST2", hostname)
              THEN "TEST2_ENVIRONMENT"
              ELSE old

\* Line 189 assigns the str "UNKNOWN"; the for loop of line 193 iterates it.
UnknownGroups == Chars("UNKNOWN")

\* `if` and `append` swapped into if/else: a first use creates the key only.
AddHostCreateOnly(inv, group, hostname) ==
    IF group \notin DOMAIN inv
    THEN (group :> [hosts |-> <<>>]) @@ inv
    ELSE [inv EXCEPT ![group].hosts = Append(@, hostname)]

\* Lines 194-196.
AddHost(inv, group, hostname) ==
    LET inv1 == IF group \notin DOMAIN inv
                THEN (group :> [hosts |-> <<>>]) @@ inv
                ELSE inv
    IN [inv1 EXCEPT ![group].hosts = Append(@, hostname)]

RECURSIVE AddHostToGroups(_, _, _)
\* The for loop of lines 193-196.
AddHostToGroups(inv, gs, hostname) ==
    IF gs = <<>>
    THEN inv
    ELSE AddHostToGroups(AddHost(inv, Head(gs), hostname), Tail(gs), hostname)

\* The dict literal of lines 199-204.
HostVars(jn, en) ==
    [job_name |-> jn, env_name |-> en,
     server_description |-> "Server in my org", connected_hosts |-> <<>>]

\* The assignment of lines 199-204.
SetHostVars(inv, hostname, hv) ==
    [inv EXCEPT !["_meta"].hostvars = (hostname :> hv) @@ @]

\* Line 143.
NewInventory == ("_meta" :> [hostvars |-> <<>>])

\* What a finished invocation hands to its caller.
Outcome(exc, doc) == [exc |-> exc, doc |-> doc]

\* Entry of generate_inventory: every local is unbound, line 143 runs.
CallBody ==
    /\ calls' = calls + 1
    /\ pc' = "loop"
    /\ i' = 1
    /\ inventory' = NewInventory
    /\ groups' = <<>>
    /\ job_name' = Unbound
    /\ env_name' = Unbound
    /\ error' = ""

\* The inventory dict is created once and shared by all invocations.
CallSharedInventory ==
    /\ pc \in {"idle", "returned", "raised"}
    /\ calls < MaxCalls
    /\ calls' = calls + 1
    /\ pc' = "loop"
    /\ i' = 1
    /\ inventory' = IF calls = 0 THEN NewInventory ELSE inventory
    /\ groups' = <<>>
    /\ job_name' = Unbound
    /\ env_name' = Unbound
    /\ error' = ""
    /\ UNCHANGED <<hosts, outcomes>>
    /\ UNCHANGED fetchVars

\* A caller invokes generate_inventory(hosts) in the same process.
Call ==
    /\ pc \in {"idle", "returned", "raised"}
    /\ calls < MaxCalls
    /\ CallBody
    /\ UNCHANGED <<hosts, outcomes>>
    /\ UNCHANGED fetchVars

\* One iteration of the loop of lines 146-204.
ProcessHost ==
    /\ pc = "loop"
    /\ i <= Len(hosts)
    /\ LET app_region == hosts[i].app_region
           hostname == hosts[i].ObjectName
       IN IF PredicateRaises(app_region)
          THEN /\ pc' = "raised"
               /\ error' = "TypeError"
               /\ outcomes' = Append(outcomes, Outcome("TypeError", <<>>))
               /\ UNCHANGED <<i, inventory, groups, job_name, env_name>>
          ELSE LET managed == IsTestEnv(app_region, hostname)
                   gs == IF managed THEN ManagedGroups(hostname)
                                    ELSE UnknownGroups
                   jn == IF managed THEN "generic-prometheus-job-name"
                                    ELSE "generic-metrics"
                   en == IF managed THEN ManagedEnvName(hostname, env_name)
                                    ELSE env_name
                   inv1 == AddHostToGroups(inventory, gs, hostname)
               IN /\ groups' = gs
                  /\ job_name' = jn
                  /\ env_name' = en
                  /\ IF en = Unbound
                     THEN \* line 201 reads env_name before any assignment
                          /\ inventory' = inv1
                          /\ pc' = "raised"
                          /\ error' = "UnboundLocalError"
                          /\ outcomes' = Append(outcomes,
                                 Outcome("UnboundLocalError", <<>>))
                          /\ UNCHANGED i
                     ELSE /\ inventory' =
                                 SetHostVars(inv1, hostname, HostVars(jn, en))
                          /\ i' = i + 1
                          /\ UNCHANGED <<pc, error, outcomes>>
    /\ UNCHANGED <<hosts, calls>>
    /\ UNCHANGED fetchVars

\* Line 206.
Return ==
    /\ pc = "loop"
    /\ i > Len(hosts)
    /\ pc' = "returned"
    /\ outcomes' = Append(outcomes, Outcome("", inventory))
    /\ UNCHANGED <<hosts, i, inventory, groups, job_name, env_name, error,
                   calls>>
    /\ UNCHANGED fetchVars

\* generate_inventory called on any sequence of host records.
Init ==
    /\ pc = "idle"
    /\ hosts \in SeqsUpTo(HostRecords, MaxHosts)
    /\ sql_data = <<>>
    /\ r = 1
    /\ json_like_data = <<>>
    /\ i = 1
    /\ inventory = <<>>
    /\ groups = <<>>
    /\ job_name = Unbound
    /\ env_name = Unbound
    /\ error = ""
    /\ calls = 0
    /\ outcomes = <<>>
    /\ stdout = <<>>

Next == Call \/ ProcessHost \/ Return

Spec == Init /\ [][Next]_vars

-----------------------------------------------------------------------------
(* fetch_hosts_from_db and __main__ *)

\* bool(x) for the Python values of the model.
Truthy(x) ==
    CASE x.t = "NoneType" -> FALSE
      [] x.t = "str" -> x.v # ""
      [] x.t = "int" -> x.v # 0
      [] x.t = "list" -> x.v # <<>>
      [] x.t = "dict" -> DOMAIN x.v # {}

TagEntry(value) == PyDict("tag" :> value)

TagMap(entries) == PyDict("$values" :> PyList(entries))

\* Serialized tag payloads that reach the loop as str.
TextBad == "{bad"

TextList == "[]"

TextTags == "{\"$values\": [{\"tag\": \"TEAMNAME-DEV\"}]}"

\* json.loads on the texts above: the parsed value, or JSONDecodeError.
json_loads(text) ==
    CASE text = TextList -> [ok |-> TRUE, value |-> PyList(<<>>)]
      [] text = TextTags ->
             [ok |-> TRUE, value |-> TagMap(<<TagEntry(PyStr("TEAMNAME-DEV"))>>)]
      [] OTHER -> [ok |-> FALSE, value |-> PyNone]

\* Column 3 of a row: the "Tags" payload.
Payloads ==
    { PyNone,
      PyStr(""), PyStr(TextBad), PyStr(TextList), PyStr(TextTags),
      PyInt(0), PyInt(7), PyList(<<PyInt(1)>>),
      PyDict("owner" :> PyStr("ops")),
      TagMap(<<TagEntry(PyStr("OWNER-OPS")), TagEntry(PyStr("TEAMNAME-TEST1")),
               TagEntry(PyStr("TEAMNAME-DEV"))>>),
      TagMap(<<PyDict("name" :> PyStr("TEAMNAME-DEV")),
               TagEntry(PyStr("TEAMNAME-PROD"))>>),
      TagMap(<<PyStr("TEAMNAME-DEV")>>),
      TagMap(<<TagEntry(PyNone)>>),
      PyDict("$values" :> PyNone) }

RowHostnames == {"DEV01", "TEST1-TOMCAT", "PROD-WEB"}

\* Rows of the query of lines 47-70: datasource, id, name, tags.
Rows == { <<"vcenter", 1, h, p>> : h \in RowHostnames, p \in Payloads }

\* d.get(key, default) on a dict.
DictGet(d, key, default) == IF key \in DOMAIN d.v THEN d.v[key] ELSE default

RECURSIVE ScanTags(_)
\* The loop of lines 105-111 over a list: the app_region it leaves, or the
\* exception raised by tag.get / tag_value.startswith.
ScanTags(tags) ==
    IF tags = <<>>
    THEN [exc |-> "", app_region |-> PyNone]
    ELSE LET tag == Head(tags)
         IN IF tag.t # "dict"
            THEN [exc |-> "AttributeError", app_region |-> PyNone]
            ELSE LET tag_value == DictGet(tag, "tag", PyStr(""))
                 IN IF tag_value.t # "str"
                    THEN [exc |-> "AttributeError", app_region |-> PyNone]
                    ELSE IF StartsWith(tag_value.v, "TEAMNAME-")
                         THEN [exc |-> "", app_region |-> tag_value]
                         ELSE ScanTags(Tail(tags))

\* Lines 104-111 on tags_dict: `.get` exists on a dict only.  The for loop
\* iterates a list; the elements of a str or of a dict are str values, on
\* which tag.get raises; None and int are not iterable.
ExtractRegion(tags_dict) ==
    IF tags_dict.t # "dict"
    THEN [exc |-> "AttributeError", app_region |-> PyNone]
    ELSE LET tags_array == DictGet(tags_dict, "$values", PyList(<<>>))
         IN CASE tags_array.t = "list" -> ScanTags(tags_array.v)
              [] tags_array.t \in {"str", "dict"} ->
                     IF Truthy(tags_array)
                     THEN [exc |-> "AttributeError", app_region |-> PyNone]
                     ELSE [exc |-> "", app_region |-> PyNone]
              [] OTHER -> [exc |-> "TypeError", app_region |-> PyNone]

\* Lines 85-101: what the row's payload becomes: a tags_dict, or the row is
\* skipped with a log line.
ParseTags(payload) ==
    LET tags_raw == IF Truthy(payload) THEN payload ELSE PyDict(<<>>)
    IN IF tags_raw.t = "str"
       THEN IF json_loads(tags_raw.v).ok
            THEN [skip |-> "", tags_dict |-> json_loads(tags_raw.v).value]
            ELSE [skip |-> "Error decoding JSON from tags",
                  tags_dict |-> PyNone]
       ELSE IF tags_raw.t = "dict"
            THEN [skip |-> "", tags_dict |-> tags_raw]
            ELSE [skip |-> "Unexepected type for tags data",
                  tags_dict |-> PyNone]

genVars == <<i, inventory, groups, job_name, env_name, calls, outcomes>>

\* Lines 31-39 and 44-79: the connection succeeds and the query returns rows.
\* The database is the environment: it may return any rows.
ConnectOK ==
    /\ pc = "connect"
    /\ \E rows \in SeqsUpTo(Rows, MaxRows) : sql_data' = rows
    /\ r' = 1
    /\ json_like_data' = <<>>
    /\ pc' = "rows"
    /\ UNCHANGED <<hosts, error, stdout>>
    /\ UNCHANGED genVars

\* Lines 40-42 and 210: psycopg2.OperationalError, the fetch returns [].
ConnectFail ==
    /\ pc = "connect"
    /\ stdout' = Append(stdout, "Database connection failed")
    /\ hosts' = <<>>
    /\ pc' = "fetched"
    /\ UNCHANGED <<sql_data, r, json_like_data, error>>
    /\ UNCHANGED genVars

\* One iteration of the loop of lines 84-120.
FetchRow ==
    /\ pc = "rows"
    /\ r <= Len(sql_data)
    /\ LET row == sql_data[r]
           parsed == ParseTags(row[4])
           found == ExtractRegion(parsed.tags_dict)
       IN IF parsed.skip # ""
          THEN /\ stdout' = Append(stdout, parsed.skip)
               /\ r' = r + 1
               /\ UNCHANGED <<pc, json_like_data, error>>
          ELSE IF found.exc # ""
               THEN /\ pc' = "fetch_raised"
                    /\ error' = found.exc
                    /\ UNCHANGED <<r, json_like_data, stdout>>
               ELSE /\ json_like_data' = Append(json_like_data,
                           HostRecord(row[1], row[2], row[3], found.app_region))
                    /\ r' = r + 1
                    /\ UNCHANGED <<pc, error, stdout>>
    /\ UNCHANGED <<sql_data, hosts>>
    /\ UNCHANGED genVars

\* Lines 122 and 210: hosts = fetch_hosts_from_db().
FetchReturn ==
    /\ pc = "rows"
    /\ r > Len(sql_data)
    /\ hosts' = json_like_data
    /\ pc' = "fetched"
    /\ UNCHANGED <<sql_data, r, json_like_data, error, stdout>>
    /\ UNCHANGED genVars

\* Line 211: inventory = generate_inventory(hosts).
MainGenerate ==
    /\ pc = "fetched"
    /\ CallBody
    /\ UNCHANGED <<hosts, outcomes>>
    /\ UNCHANGED fetchVars

\* Line 212: print(json.dumps(inventory)).
MainPrint ==
    /\ pc = "returned"
    /\ stdout' = Append(stdout, "inventory")
    /\ pc' = "exit"
    /\ UNCHANGED <<sql_data, r, json_like_data, hosts, error>>
    /\ UNCHANGED genVars

\* The script run as __main__.
InitMain ==
    /\ pc = "connect"
    /\ hosts = <<>>
    /\ sql_data = <<>>
    /\ r = 1
    /\ json_like_data = <<>>
    /\ i = 1
    /\ inventory = <<>>
    /\ groups = <<>>
    /\ job_name = Unbound
    /\ env_name = Unbound
    /\ error = ""
    /\ calls = 0
    /\ outcomes = <<>>
    /\ stdout = <<>>

NextMain ==
    \/ ConnectOK
    \/ ConnectFail
    \/ FetchRow
    \/ FetchReturn
    \/ MainGenerate
    \/ ProcessHost
    \/ Return
    \/ MainPrint

SpecMain == InitMain /\ [][NextMain]_vars

-----------------------------------------------------------------------------
(* Vocabulary of the properties *)

EnvGroupNames == {"DEV", "TEST1", "TEST2"}

RoleGroupNames == {"WEB", "WEB_PATCHING", "APP", "TOMCAT_PATCHING"}

EnvLabels == {"DEV_ENVIRONMENT", "TEST1_ENVIRONMENT", "TEST2_ENVIRONMENT"}

GroupKeys(inv) == DOMAIN inv \ {"_meta"}

HostsOf(inv, g) == IF g \in DOMAIN inv THEN inv[g].hosts ELSE <<>>

Range(s) == {s[k] : k \in 1..Len(s)}

\* The loop is about to process hosts[i].
AtHost == pc = "loop" /\ i <= Len(hosts)

\* How often this step appended hostname h to the host list of group g.
Added(g, h) == Count(h, HostsOf(inventory', g)) - Count(h, HostsOf(inventory, g))

\* The managed-environment predicate as the specification words it.
SpecManaged(host) ==
    \/ /\ host.app_region.t = "str"
       /\ \E e \in EnvGroupNames : Contains(e, host.app_region.v)
    \/ Contains("TEST", host.ObjectName)

\* First match on the hostname in the order DEV, TEST1, TEST2; "" if none.
SpecBucket(hostname) ==
    IF Contains("DEV", hostname) THEN "DEV"
    ELSE IF Contains("TEST1", hostname) THEN "TEST1"
    ELSE IF Contains("TEST2", hostname) THEN "TEST2"
    ELSE ""

SpecRoleGroups(hostname) ==
    IF Contains("HTTP", hostname) \/ Contains("WEB", hostname)
    THEN {"WEB", "WEB_PATCHING"}
    ELSE IF Contains("APP", hostname) \/ Contains("TOMCAT", hostname)
         THEN {"APP", "TOMCAT_PATCHING"}
         ELSE {}

\* The group set the specification gives a host.
SpecGroupSet(host) ==
    IF SpecManaged(host)
    THEN IF SpecBucket(host.ObjectName) = ""
         THEN {}
         ELSE {SpecBucket(host.ObjectName)} \cup SpecRoleGroups(host.ObjectName)
    ELSE {"UNKNOWN"}

SpecJobName(host) ==
    IF SpecManaged(host) THEN "generic-prometheus-job-name"
                         ELSE "generic-metrics"

\* The environment label the specification gives a host; "" stands for unset.
SpecEnvName(host) ==
    IF SpecManaged(host) /\ SpecBucket(host.ObjectName) # ""
    THEN SpecBucket(host.ObjectName) \o "_ENVIRONMENT"
    ELSE ""

-----------------------------------------------------------------------------
(* Properties of generate_inventory *)

\* C1: a host whose appRegion is null and whose hostname does not contain
\* "TEST" is processed without error, its group set is exactly {"UNKNOWN"}
\* and its job_name is "generic-metrics".
C1_NullRegionIsUnknown ==
    [][ (AtHost /\ hosts[i].app_region.t = "NoneType"
                /\ ~Contains("TEST", hosts[i].ObjectName))
        => /\ pc' # "raised"
           /\ Range(groups') = {"UNKNOWN"}
           /\ job_name' = "generic-metrics" ]_vars

\* C2: a host for which the managed-environment predicate is false (non-null
\* appRegion) is appended exactly once to the host list of the group
\* "UNKNOWN" and to no other group; no other group key is created.
C2_UnknownOnly ==
    [][ (AtHost /\ hosts[i].app_region.t = "str" /\ ~SpecManaged(hosts[i]))
        => /\ GroupKeys(inventory') = GroupKeys(inventory) \cup {"UNKNOWN"}
           /\ \A g \in GroupKeys(inventory') :
                 Added(g, hosts[i].ObjectName)
                     = IF g = "UNKNOWN" THEN 1 ELSE 0 ]_vars

\* C3: a host that satisfies the managed-environment predicate is added to
\* exactly one of DEV/TEST1/TEST2, the first match on its hostname in that
\* order, and env_name is that bucket's label.
C3_EnvBucketFirstMatch ==
    [][ (AtHost /\ SpecManaged(hosts[i]))
        => LET h == hosts[i].ObjectName
           IN /\ pc' # "raised"
              /\ SpecBucket(h) \in EnvGroupNames
              /\ \A g \in EnvGroupNames :
                    Added(g, h) = IF g = SpecBucket(h) THEN 1 ELSE 0
              /\ env_name' = SpecBucket(h) \o "_ENVIRONMENT"
              /\ inventory'["_meta"].hostvars[h].env_name = env_name' ]_vars

\* C4: a host placed in an environment bucket is added to exactly WEB and
\* WEB_PATCHING if its hostname contains "HTTP" or "WEB"; otherwise to
\* exactly APP and TOMCAT_PATCHING if it contains "APP" or "TOMCAT";
\* otherwise to no role group; the same in the three branches.
C4_RoleGroups ==
    [][ (AtHost /\ \E e \in EnvGroupNames : Added(e, hosts[i].ObjectName) > 0)
        => LET h == hosts[i].ObjectName
           IN /\ \A g \in RoleGroupNames :
                    Added(g, h) = IF g \in SpecRoleGroups(h) THEN 1 ELSE 0
              /\ Range(Tail(groups')) = SpecRoleGroups(h)
              /\ Len(Tail(groups')) = Cardinality(SpecRoleGroups(h)) ]_vars

\* A TEST2 host whose name contains both "HTTP" and "APP" has been placed in
\* TEST2, WEB and WEB_PATCHING only.
C4_Witness ==
    /\ pc = "loop"
    /\ i > 1
    /\ hosts[i - 1].ObjectName = "TEST2-HTTP-APP"
    /\ groups = <<"TEST2", "WEB", "WEB_PATCHING">>
    /\ GroupKeys(inventory) = {"TEST2", "WEB", "WEB_PATCHING"}

\* C5: for a host that lands in the UNKNOWN branch, at any position of the
\* input, the env_name written to its hostvars is an unset sentinel: the
\* run is not aborted by an uninitialized reference, and the value is not an
\* environment label computed for an earlier host.
C5_UnknownEnvNameUnset ==
    [][ (AtHost /\ hosts[i].app_region.t = "str"
                /\ ~IsTestEnv(hosts[i].app_region, hosts[i].ObjectName))
        => /\ error' # "UnboundLocalError"
           /\ pc' # "raised"
           /\ inventory'["_meta"].hostvars[hosts[i].ObjectName].env_name
                 \notin EnvLabels ]_vars

\* The tag payloads the specification calls malformed: neither a str nor a
\* map (NULL, absent tags, aside), or a str that does not parse to a map.
SpecMalformed(payload) ==
    CASE payload.t = "NoneType" -> FALSE
      [] payload.t = "dict" -> FALSE
      [] payload.t = "str" ->
             \/ ~json_loads(payload.v).ok
             \/ json_loads(payload.v).value.t # "dict"
      [] OTHER -> TRUE

\* C6: a row whose tag payload is malformed is skipped without failing, the
\* loop goes on to the next row, and the row's hostname is neither in
\* _meta.hostvars nor in any group of the resulting inventory.
C6_MalformedRowSkipped ==
    /\ [][ (pc = "rows" /\ r <= Len(sql_data) /\ SpecMalformed(sql_data[r][4]))
           => /\ pc' = "rows"
              /\ r' = r + 1
              /\ json_like_data' = json_like_data ]_vars
    /\ [](pc = "exit" =>
            \A k \in 1..Len(sql_data) :
                (/\ SpecMalformed(sql_data[k][4])
                 /\ \A m \in 1..Len(sql_data) :
                       sql_data[m][3] = sql_data[k][3]
                           => SpecMalformed(sql_data[m][4]))
                => /\ sql_data[k][3] \notin DOMAIN inventory["_meta"].hostvars
                   /\ \A g \in GroupKeys(inventory) :
                         sql_data[k][3] \notin Range(inventory[g].hosts))

\* C7: when two records share a hostname, the returned hostvars entry holds
\* the variables of the later record and every group into which both
\* records classify lists the hostname once per record.
C7_DuplicateHostname ==
    pc = "returned" =>
        \A a \in 1..Len(hosts) : \A b \in 1..Len(hosts) :
            LET h == hosts[b].ObjectName
                hv == inventory["_meta"].hostvars
            IN (/\ a < b
                /\ hosts[a].ObjectName = h
                /\ \A k \in (b + 1)..Len(hosts) : hosts[k].ObjectName # h)
               => /\ h \in DOMAIN hv
                  /\ hv[h].job_name = SpecJobName(hosts[b])
                  /\ IF SpecEnvName(hosts[b]) = ""
                     THEN hv[h].env_name \notin EnvLabels
                     ELSE hv[h].env_name = SpecEnvName(hosts[b])
                  /\ \A g \in SpecGroupSet(hosts[a]) \cap SpecGroupSet(hosts[b]) :
                        Count(h, HostsOf(inventory, g))
                            = Cardinality({k \in 1..Len(hosts) :
                                  /\ hosts[k].ObjectName = h
                                  /\ g \in SpecGroupSet(hosts[k])})

\* C8: in every state of generate_inventory the document contains
\* _meta.hostvars and every group key present has a non-empty host list.
C8_NoEmptyGroup ==
    pc \in {"loop", "returned", "raised"} =>
        /\ "_meta" \in DOMAIN inventory
        /\ "hostvars" \in DOMAIN inventory["_meta"]
        /\ \A g \in GroupKeys(inventory) : Len(inventory[g].hosts) >= 1

\* A returned document in which one group lists two hosts.
C8_Witness ==
    /\ pc = "returned"
    /\ \E g \in GroupKeys(inventory) : Len(inventory[g].hosts) = 2

\* C9: two invocations in the same process on the same host sequence have
\* the same outcome, the same document or the same failure.
C9_Deterministic ==
    \A k \in 1..Len(outcomes) : outcomes[k] = outcomes[1]

\* A second invocation has returned a document with at least one group.
C9_Witness ==
    /\ Len(outcomes) = 2
    /\ outcomes[2].exc = ""
    /\ GroupKeys(outcomes[2].doc) # {}

\* C10: after generate_inventory returns, every key of _meta.hostvars is in
\* the host list of at least one group and every hostname in a host list is
\* a key of _meta.hostvars.
C10_HostvarsMatchGroups ==
    pc = "returned" =>
        LET hv == inventory["_meta"].hostvars
        IN /\ \A h \in DOMAIN hv :
                 \E g \in GroupKeys(inventory) : h \in Range(inventory[g].hosts)
           /\ \A g \in GroupKeys(inventory) :
                 Range(inventory[g].hosts) \subseteq DOMAIN hv

====
